---- MODULE Spec2Model ----
(***************************************************************************)
(* Model of vad_audio (src/get_conversation.py): the streaming voice       *)
(* activity segmentation generator.  A run takes a frame duration, a       *)
(* padding duration and a finite sequence of frames; every frame is        *)
(* classified, folded into a ring buffer / trigger / accumulator state     *)
(* machine, and completed segments are yielded as joined byte buffers.     *)
(***************************************************************************)
EXTENDS Integers, Sequences, FiniteSets, TLC

VARIABLES
    frame_duration_ms,   \* argument of vad_audio
    padding_duration_ms, \* argument of vad_audio
    audio,               \* argument of vad_audio: the sequence of frames
    pc,                  \* "start", "loop", "done", "failed", "error"
    i,                   \* number of frames the for loop has taken from audio
    num_padding_frames,  \* line 45
    ring_buffer,         \* line 46: deque of <<frame, is_speech>>
    triggered,           \* line 47
    voiced_frames,       \* line 49: list of <<frame, is_speech>>
    out,                 \* the buffers yielded so far (lines 70, 74)
    stdout,              \* the markers written to sys.stdout
    skipped,             \* history: frames the deque dropped while not triggered
    run,                 \* 1 for the first call of vad_audio, 2 for the second
    out1                 \* what the first call yielded, kept for the second

vars == <<frame_duration_ms, padding_duration_ms, audio, pc, i,
          num_padding_frames, ring_buffer, triggered, voiced_frames,
          out, stdout, skipped, run, out1>>

----------------------------------------------------------------------------
(* Bounds of the explored inputs. *)

MaxFrames == 8
MaxRuns == 5
MaxLiveFrames == 5

RunLens == {1, 9, 10}

\* <<frame_duration_ms, padding_duration_ms>> explored with every short input
SmallConfigs == {<<30, 30>>, <<30, 60>>, <<30, 100>>, <<30, 20>>, <<30, -10>>, <<30, -40>>}
\* <<frame_duration_ms, padding_duration_ms>> explored with the run-length inputs
LongConfigs == {<<30, 300>>, <<30, 330>>}

----------------------------------------------------------------------------
(* Frames and inputs. *)

\* a frame carries one byte of payload; the byte decides the classifier's verdict
MkFrame(k, speech) ==
    [timestamp |-> k - 1, duration |-> 1, bytes |-> <<IF speech THEN 1 ELSE 0>>]

MkAudio(v) == [k \in 1..Len(v) |-> MkFrame(k, v[k])]

Rep(n, b) == [k \in 1..n |-> b]

RECURSIVE Expand(_, _)
Expand(lens, first) ==
    IF lens = <<>> THEN <<>>
    ELSE Rep(Head(lens), first) \o Expand(Tail(lens), ~first)

ShortVerdicts == UNION {[1..n -> BOOLEAN] : n \in 0..MaxFrames}

RunVerdicts ==
    {Expand(lens, first) :
        lens \in UNION {[1..n -> RunLens] : n \in 1..MaxRuns}, first \in BOOLEAN}

ScenarioA == Rep(20, FALSE)
ScenarioB == Rep(10, FALSE) \o Rep(5, TRUE) \o Rep(10, FALSE)
ScenarioC == Rep(10, FALSE) \o Rep(15, TRUE) \o Rep(10, FALSE)

LongVerdicts == RunVerdicts \cup {ScenarioA, ScenarioB, ScenarioC}

LiveVerdicts == UNION {[1..n -> BOOLEAN] : n \in 0..MaxLiveFrames}

----------------------------------------------------------------------------
(* Helpers of the loop. *)

\* int(a / b) for b > 0: true division, then truncation toward zero
IntTrunc(a, b) == IF a >= 0 THEN a \div b ELSE -((-a) \div b)

Capacity(frame_ms, padding_ms) == IntTrunc(padding_ms, frame_ms)

\* vad.is_speech(frame.bytes, sr)
IsSpeech(bytes) == bytes[1] = 1

DequeAppend_Unbounded(rb, maxlen, x) == Append(rb, x)

\* deque.append on a deque built with maxlen
DequeAppend(rb, maxlen, x) ==
    IF maxlen = 0 THEN <<>>
    ELSE IF Len(rb) = maxlen THEN Append(Tail(rb), x)
    ELSE Append(rb, x)

\* what that append drops
Evicted(rb, maxlen, x) ==
    IF maxlen = 0 THEN <<x>>
    ELSE IF Len(rb) = maxlen THEN <<Head(rb)>>
    ELSE <<>>

RECURSIVE CountSpeech(_, _)
CountSpeech(rb, b) ==
    IF rb = <<>> THEN 0
    ELSE (IF rb[1][2] = b THEN 1 ELSE 0) + CountSpeech(Tail(rb), b)

NumVoiced_All(rb) == Len(rb)

\* len([f for f, speech in ring_buffer if speech])
NumVoiced(rb) == CountSpeech(rb, TRUE)

NumUnvoiced_Voiced(rb) == CountSpeech(rb, TRUE)

\* len([f for f, speech in ring_buffer if not speech])
NumUnvoiced(rb) == CountSpeech(rb, FALSE)

Exceeds_Loose(n, limit) == 10 * n > 8 * limit

\* n > 0.9 * limit
Exceeds(n, limit) == 10 * n > 9 * limit

RingFull_Always(rb, maxlen) == TRUE

\* len(ring_buffer) == ring_buffer.maxlen
RingFull(rb, maxlen) == Len(rb) = maxlen

ReleaseLimit_Len(rb, maxlen) == Len(rb)

\* the count the release test measures against: ring_buffer.maxlen
ReleaseLimit(rb, maxlen) == maxlen

AccumOnTrigger_Newest(vf, rb) == Append(vf, rb[Len(rb)])

\* voiced_frames.extend(ring_buffer)
AccumOnTrigger(vf, rb) == vf \o rb

AccumOnFrame_SpeechOnly(vf, x) == IF x[2] THEN Append(vf, x) ELSE vf

\* voiced_frames.append((frame, is_speech))
AccumOnFrame(vf, x) == Append(vf, x)

RingAfterYield_Kept(rb) == rb

\* ring_buffer.clear() after the yield
RingAfterYield(rb) == <<>>

NextIndex_Skip(k) == k + 2

\* the for loop takes the next frame of audio
NextIndex(k) == k + 1

AccumAfterYield_Kept(vf) == vf

\* voiced_frames = [] after the yield
AccumAfterYield(vf) == <<>>

RECURSIVE JoinBytes(_)
\* b''.join([f.bytes for f, speech in voiced_frames])
JoinBytes(vf) ==
    IF vf = <<>> THEN <<>> ELSE vf[1][1].bytes \o JoinBytes(Tail(vf))

Frames(vf) == [k \in 1..Len(vf) |-> vf[k][1]]

\* one yielded buffer, with the frames it was joined from, the number of
\* frames consumed when it was yielded, and the yield that produced it
Emission(vf, at, kind) ==
    [bytes |-> JoinBytes(vf), frames |-> Frames(vf), at |-> at, kind |-> kind]

FlushCond_Full(vf, maxlen) == Len(vf) > maxlen

\* if voiced_frames:
FlushCond(vf, maxlen) == vf # <<>>

\* one iteration of the for loop on the idx-th frame
LoopBody(s, maxlen, frame, idx) ==
    LET is_speech == IsSpeech(frame.bytes)
        so1 == Append(s.stdout, <<IF is_speech THEN "1" ELSE "0">>)
        rb1 == DequeAppend(s.ring_buffer, maxlen, <<frame, is_speech>>)
    IN  IF ~s.triggered
        THEN LET sk1 == s.skipped \o Evicted(s.ring_buffer, maxlen, <<frame, is_speech>>)
             IN  IF RingFull(rb1, maxlen) /\ Exceeds(NumVoiced(rb1), maxlen)
                 THEN [ring_buffer |-> <<>>, triggered |-> TRUE,
                       voiced_frames |-> AccumOnTrigger(s.voiced_frames, rb1),
                       out |-> s.out,
                       stdout |-> Append(so1, <<"+", rb1[1][1].timestamp>>),
                       skipped |-> sk1]
                 ELSE [ring_buffer |-> rb1, triggered |-> FALSE,
                       voiced_frames |-> s.voiced_frames,
                       out |-> s.out, stdout |-> so1, skipped |-> sk1]
        ELSE LET vf1 == AccumOnFrame(s.voiced_frames, <<frame, is_speech>>)
             IN  IF Exceeds(NumUnvoiced(rb1), ReleaseLimit(rb1, maxlen))
                 THEN [ring_buffer |-> RingAfterYield(rb1), triggered |-> FALSE,
                       voiced_frames |-> AccumAfterYield(vf1),
                       out |-> Append(s.out, Emission(vf1, idx, "release")),
                       stdout |-> Append(so1, <<"-", frame.timestamp + frame.duration>>),
                       skipped |-> s.skipped]
                 ELSE [ring_buffer |-> rb1, triggered |-> TRUE,
                       voiced_frames |-> vf1,
                       out |-> s.out, stdout |-> so1, skipped |-> s.skipped]

State ==
    [ring_buffer |-> ring_buffer, triggered |-> triggered,
     voiced_frames |-> voiced_frames, out |-> out, stdout |-> stdout,
     skipped |-> skipped]

FailOut_Flush(o, vf, at) == IF vf # <<>> THEN Append(o, Emission(vf, at, "flush")) ELSE o

\* the classifier's exception leaves the generator: nothing is yielded
FailOut(o, vf, at) == o

NewRingBuffer_Shared(maxlen) == ring_buffer

\* collections.deque(maxlen=num_padding_frames)
NewRingBuffer(maxlen) == <<>>

----------------------------------------------------------------------------
(* The state machine. *)

Init ==
    /\ \E cfg \in SmallConfigs \cup LongConfigs :
         /\ frame_duration_ms = cfg[1]
         /\ padding_duration_ms = cfg[2]
         /\ \E v \in (IF cfg \in SmallConfigs THEN ShortVerdicts ELSE LongVerdicts) :
              audio = MkAudio(v)
    /\ pc = "start"
    /\ i = 0
    /\ num_padding_frames = 0
    /\ ring_buffer = <<>>
    /\ triggered = FALSE
    /\ voiced_frames = <<>>
    /\ out = <<>>
    /\ stdout = <<>>
    /\ skipped = <<>>
    /\ run = 1
    /\ out1 = <<>>

\* lines 45-49, when the deque can be built
Construct ==
    /\ pc = "start"
    /\ Capacity(frame_duration_ms, padding_duration_ms) >= 0
    /\ num_padding_frames' = Capacity(frame_duration_ms, padding_duration_ms)
    /\ ring_buffer' = NewRingBuffer(Capacity(frame_duration_ms, padding_duration_ms))
    /\ triggered' = FALSE
    /\ voiced_frames' = <<>>
    /\ out' = <<>>
    /\ skipped' = <<>>
    /\ i' = 0
    /\ pc' = "loop"
    /\ UNCHANGED <<frame_duration_ms, padding_duration_ms, audio, stdout, run, out1>>

\* lines 45-46, when deque(maxlen=...) raises ValueError on a negative maxlen
ConstructError ==
    /\ pc = "start"
    /\ Capacity(frame_duration_ms, padding_duration_ms) < 0
    /\ num_padding_frames' = Capacity(frame_duration_ms, padding_duration_ms)
    /\ pc' = "error"
    /\ UNCHANGED <<frame_duration_ms, padding_duration_ms, audio, i, ring_buffer,
                   triggered, voiced_frames, out, stdout, skipped, run, out1>>

\* lines 50-72: one frame classified and folded in
ProcessFrame ==
    /\ pc = "loop"
    /\ i < Len(audio)
    /\ LET s == LoopBody(State, num_padding_frames, audio[i + 1], i + 1)
       IN  /\ ring_buffer' = s.ring_buffer
           /\ triggered' = s.triggered
           /\ voiced_frames' = s.voiced_frames
           /\ out' = s.out
           /\ stdout' = s.stdout
           /\ skipped' = s.skipped
    /\ i' = NextIndex(i)
    /\ UNCHANGED <<frame_duration_ms, padding_duration_ms, audio, pc,
                   num_padding_frames, run, out1>>

\* line 51: vad.is_speech raises on the next frame
ClassifierFail ==
    /\ pc = "loop"
    /\ i < Len(audio)
    /\ pc' = "failed"
    /\ out' = FailOut(out, voiced_frames, i)
    /\ UNCHANGED <<frame_duration_ms, padding_duration_ms, audio, i,
                   num_padding_frames, ring_buffer, triggered, voiced_frames,
                   stdout, skipped, run, out1>>

\* lines 73-74: the input is exhausted
Finish ==
    /\ pc = "loop"
    /\ i = Len(audio)
    /\ out' = IF FlushCond(voiced_frames, num_padding_frames)
              THEN Append(out, Emission(voiced_frames, i, "flush"))
              ELSE out
    /\ pc' = "done"
    /\ UNCHANGED <<frame_duration_ms, padding_duration_ms, audio, i,
                   num_padding_frames, ring_buffer, triggered, voiced_frames,
                   stdout, skipped, run, out1>>

\* a second call of vad_audio with the same arguments
Restart ==
    /\ pc = "done"
    /\ run = 1
    /\ run' = 2
    /\ out1' = out
    /\ pc' = "start"
    /\ UNCHANGED <<frame_duration_ms, padding_duration_ms, audio, i,
                   num_padding_frames, ring_buffer, triggered, voiced_frames,
                   out, stdout, skipped>>

Next ==
    \/ Construct
    \/ ConstructError
    \/ ProcessFrame
    \/ ClassifierFail
    \/ Finish
    \/ Restart

Spec == Init /\ [][Next]_vars

\* the same machine over fewer inputs, with a consumer that keeps pulling
InitLive ==
    /\ \E cfg \in SmallConfigs \cup LongConfigs :
         /\ frame_duration_ms = cfg[1]
         /\ padding_duration_ms = cfg[2]
         /\ \E v \in (IF cfg \in SmallConfigs THEN LiveVerdicts
                      ELSE {ScenarioA, ScenarioB, ScenarioC}) :
              audio = MkAudio(v)
    /\ pc = "start"
    /\ i = 0
    /\ num_padding_frames = 0
    /\ ring_buffer = <<>>
    /\ triggered = FALSE
    /\ voiced_frames = <<>>
    /\ out = <<>>
    /\ stdout = <<>>
    /\ skipped = <<>>
    /\ run = 1
    /\ out1 = <<>>

\* the consumer keeps calling next() on the generator until it is exhausted
Fairness ==
    /\ WF_vars(Construct)
    /\ WF_vars(ConstructError)
    /\ WF_vars(ProcessFrame)
    /\ WF_vars(Finish)

FairSpec == InitLive /\ [][Next]_vars /\ Fairness

----------------------------------------------------------------------------
(* Definitions shared by the properties. *)

RECURSIVE SegFrames(_)
\* the frames of all yielded buffers, in the order yielded
SegFrames(o) == IF o = <<>> THEN <<>> ELSE o[1].frames \o SegFrames(Tail(o))

\* the frames dropped while not triggered, and those left in the ring buffer
\* by a run that ended not triggered
SkippedAll ==
    Frames(skipped) \o (IF triggered THEN <<>> ELSE Frames(ring_buffer))

Occurrences(seq, x) == Cardinality({k \in DOMAIN seq : seq[k] = x})

RECURSIVE InsertByTime(_, _)
InsertByTime(sorted, f) ==
    IF sorted = <<>> THEN <<f>>
    ELSE IF f.timestamp < sorted[1].timestamp THEN <<f>> \o sorted
    ELSE <<sorted[1]>> \o InsertByTime(Tail(sorted), f)

RECURSIVE SortByTime(_)
SortByTime(seq) ==
    IF seq = <<>> THEN <<>>
    ELSE InsertByTime(SortByTime(Tail(seq)), seq[1])

\* number of speech frames among the cap input frames ending at frame n
SpeechInLast(n, cap) ==
    Cardinality({k \in (n - cap + 1)..n : IsSpeech(audio[k].bytes)})

\* frames consumed when the last buffer was yielded (0 when none was)
LastRelease == IF out = <<>> THEN 0 ELSE out[Len(out)].at

\* verdicts of the frames accumulated after the trigger frame
PostTrigger ==
    [k \in 1..(Len(voiced_frames) - num_padding_frames) |->
        voiced_frames[num_padding_frames + k][2]]

\* v is speech*, then a gap of g non-speech frames with g <= 0.9 * cap,
\* then at most one speech frame
GapPattern(v, cap) ==
    \E a \in 0..Len(v), g \in 1..Len(v) :
        /\ 10 * g <= 9 * cap
        /\ Len(v) \in {a + g, a + g + 1}
        /\ \A k \in 1..a : v[k]
        /\ \A k \in (a + 1)..(a + g) : ~v[k]
        /\ Len(v) = a + g + 1 => v[Len(v)]

\* the loop started from fresh state and run over the first n frames of audio
RECURSIVE FoldRun(_, _)
FoldRun(maxlen, n) ==
    IF n = 0
    THEN [ring_buffer |-> <<>>, triggered |-> FALSE, voiced_frames |-> <<>>,
          out |-> <<>>, stdout |-> <<>>, skipped |-> <<>>]
    ELSE LoopBody(FoldRun(maxlen, n - 1), maxlen, audio[n], n)

----------------------------------------------------------------------------
(* C1: no loss, no duplication.  When a run with capacity >= 1 has        *)
(* finished, every input frame occurs at most once in the yielded         *)
(* segments, the frames in no segment are exactly the frames skipped      *)
(* while not triggered, and segments and skipped frames taken in arrival  *)
(* order are the input.                                                   *)
C1_NoLossNoDup ==
    (pc = "done" /\ num_padding_frames >= 1) =>
        /\ \A k \in 1..Len(audio) :
             /\ Occurrences(SegFrames(out), audio[k]) <= 1
             /\ Occurrences(SkippedAll, audio[k]) <= 1
             /\ (Occurrences(SegFrames(out), audio[k]) = 0)
                  <=> (Occurrences(SkippedAll, audio[k]) = 1)
        /\ SortByTime(SegFrames(out) \o SkippedAll) = audio

C1_Witness ==
    /\ pc = "done"
    /\ num_padding_frames >= 2
    /\ Len(out) >= 2
    /\ skipped # <<>>

(* C2: monotonic segments.  The frames of every yielded segment are in    *)
(* strictly increasing timestamp order and the last frame of a segment    *)
(* precedes the first frame of the next one.                              *)
C2_MonotonicSegments ==
    /\ \A n \in 1..Len(out) :
         \A k \in 1..(Len(out[n].frames) - 1) :
            out[n].frames[k].timestamp < out[n].frames[k + 1].timestamp
    /\ \A n \in 1..(Len(out) - 1) :
         /\ out[n].frames # <<>>
         /\ out[n + 1].frames # <<>>
         /\ out[n].frames[Len(out[n].frames)].timestamp
              < out[n + 1].frames[1].timestamp

C2_Witness ==
    /\ Len(out) >= 3
    /\ num_padding_frames >= 1

(* C3: flush on exhaustion.  The step that ends the run yields exactly    *)
(* one more buffer when the machine is triggered, non-empty and equal to  *)
(* the accumulator's frames joined in order, and yields nothing when it   *)
(* is not triggered.                                                      *)
C3_FlushOnExhaustion ==
    [][(pc = "loop" /\ i = Len(audio) /\ pc' = "done") =>
         IF triggered
         THEN /\ voiced_frames # <<>>
              /\ Len(out') = Len(out) + 1
              /\ SubSeq(out', 1, Len(out)) = out
              /\ out'[Len(out')].frames = Frames(voiced_frames)
              /\ out'[Len(out')].bytes = JoinBytes(voiced_frames)
              /\ out'[Len(out')].bytes # <<>>
         ELSE out' = out]_vars

C3_Witness ==
    /\ pc = "done"
    /\ triggered
    /\ out # <<>>
    /\ out[Len(out)].kind = "flush"
    /\ Len(out[Len(out)].frames) = num_padding_frames

(* C4 as stated: whenever a frame is processed while not triggered and    *)
(* at least capacity frames have been consumed, the trigger fires iff     *)
(* the speech frames among the last capacity input frames exceed 0.9 x    *)
(* capacity.                                                              *)
C4_Original ==
    [][(pc = "loop" /\ pc' = "loop" /\ ~triggered /\ i' = i + 1
          /\ i' >= num_padding_frames) =>
         (triggered' <=>
            10 * SpeechInLast(i', num_padding_frames) > 9 * num_padding_frames)]_vars

(* C4 amended: the same, for frames processed when at least capacity      *)
(* frames have been consumed since the start of the run or since the      *)
(* last release.                                                          *)
C4_ThresholdSinceClear ==
    [][(pc = "loop" /\ pc' = "loop" /\ ~triggered /\ i' = i + 1
          /\ i' - LastRelease >= num_padding_frames) =>
         (triggered' <=>
            10 * SpeechInLast(i', num_padding_frames) > 9 * num_padding_frames)]_vars

C4_Witness ==
    /\ pc = "loop"
    /\ triggered
    /\ num_padding_frames = 11
    /\ out # <<>>
    /\ Len(voiced_frames) = 11
    /\ NumVoiced(voiced_frames) = 10

(* C5: sub-threshold input never triggers.  If no capacity consecutive    *)
(* input frames hold more than 0.9 x capacity speech frames, the machine  *)
(* is never triggered and yields nothing; this covers 20 non-speech       *)
(* frames and 10 non-speech, 5 speech, 10 non-speech at capacity 10.      *)
NoHotWindow ==
    \A n \in Capacity(frame_duration_ms, padding_duration_ms)..Len(audio) :
        ~(10 * SpeechInLast(n, Capacity(frame_duration_ms, padding_duration_ms))
            > 9 * Capacity(frame_duration_ms, padding_duration_ms))

C5_SubThresholdNeverTriggers ==
    (Capacity(frame_duration_ms, padding_duration_ms) >= 0 /\ NoHotWindow) =>
        /\ out = <<>>
        /\ ~triggered
        /\ voiced_frames = <<>>

C5_Witness ==
    /\ pc = "done"
    /\ num_padding_frames = 10
    /\ audio = MkAudio(ScenarioB)
    /\ out = <<>>

(* C6 as stated: scenario C at capacity 10 yields exactly one segment,    *)
(* holding non-speech frames from before the speech, all 15 speech        *)
(* frames and non-speech frames from after the speech.                    *)
C6_Original ==
    (pc = "done" /\ num_padding_frames = 10 /\ audio = MkAudio(ScenarioC)) =>
        /\ Len(out) = 1
        /\ \E k \in 1..10 : Occurrences(out[1].frames, audio[k]) = 1
        /\ \A k \in 11..25 : Occurrences(out[1].frames, audio[k]) = 1
        /\ \E k \in 26..35 : Occurrences(out[1].frames, audio[k]) = 1

(* C6 amended: scenario C at capacity 10 yields exactly one segment: the  *)
(* 15 speech frames followed by the 10 trailing non-speech frames, and    *)
(* no frame from before the speech.                                       *)
C6_ScenarioC ==
    (pc = "done" /\ num_padding_frames = 10 /\ audio = MkAudio(ScenarioC)) =>
        /\ Len(out) = 1
        /\ out[1].frames = SubSeq(audio, 11, 35)
        /\ out[1].bytes = Rep(15, 1) \o Rep(10, 0)

C6_Witness ==
    /\ pc = "done"
    /\ num_padding_frames = 10
    /\ audio = MkAudio(ScenarioC)
    /\ Len(out) = 1
    /\ out[1].kind = "release"

(* C7: determinism.  A second, freshly constructed run over the same      *)
(* arguments yields what the first run yielded: the same buffers, in the  *)
(* same order, each after the same input frame.                           *)
C7_Determinism ==
    run = 2 =>
        /\ pc = "loop" =>
             out = SelectSeq(out1, LAMBDA e : e.at <= i /\ e.kind = "release")
        /\ pc = "done" => out = out1

C7_Witness ==
    /\ run = 2
    /\ pc = "done"
    /\ Len(out) >= 2
    /\ ring_buffer # <<>>

(* C8: an invalid configuration is fatal.  When padding_duration_ms is    *)
(* below frame_duration_ms the run fails at construction and never        *)
(* enters the loop.                                                       *)
C8_InvalidConfigFatal ==
    padding_duration_ms < frame_duration_ms => pc \in {"start", "error"}

(* C9: short gaps do not fragment.  While triggered, if the frames since  *)
(* the trigger are speech, then a gap of g <= 0.9 x capacity non-speech   *)
(* frames, and the speech frame after it, cause no release and no yield,  *)
(* and the frames before, in and after the gap are yielded in one         *)
(* segment; at capacity 10 a release needs 10 consecutive non-speech      *)
(* frames after the trigger.                                              *)
C9_NoReleaseInGap ==
    (pc = "loop" /\ triggered /\ i' = i + 1
       /\ GapPattern(Append(PostTrigger, IsSpeech(audio[i + 1].bytes)),
                     num_padding_frames))
    => (triggered' /\ out' = out)

C9_Capacity10 ==
    (pc = "loop" /\ triggered /\ i' = i + 1 /\ num_padding_frames = 10
       /\ ~triggered')
    => /\ Len(PostTrigger) >= 9
       /\ \A k \in (i - 8)..(i + 1) : ~IsSpeech(audio[k].bytes)

C9_SameSegment ==
    pc = "done" =>
        \A n \in 1..Len(out) :
            LET t == out[n].frames[1].timestamp + num_padding_frames
            IN  \A a \in 0..Len(audio), g \in 1..Len(audio) :
                    (/\ 10 * g <= 9 * num_padding_frames
                     /\ t + a + g + 1 <= Len(audio)
                     /\ \A k \in (t + 1)..(t + a) : IsSpeech(audio[k].bytes)
                     /\ \A k \in (t + a + 1)..(t + a + g) : ~IsSpeech(audio[k].bytes)
                     /\ IsSpeech(audio[t + a + g + 1].bytes))
                    => \A k \in (t + 1)..(t + a + g + 1) :
                           Occurrences(out[n].frames, audio[k]) = 1

C9_ShortGaps ==
    /\ []C9_SameSegment
    /\ [][C9_NoReleaseInGap /\ C9_Capacity10]_vars

C9_Witness ==
    /\ pc = "loop"
    /\ triggered
    /\ num_padding_frames = 11
    /\ Len(PostTrigger) >= 10
    /\ PostTrigger[Len(PostTrigger)]
    /\ \A k \in 1..9 : ~PostTrigger[Len(PostTrigger) - k]

(* C10: a classifier failure is fatal.  After the classifier fails the    *)
(* run takes no further frame and yields nothing more, the accumulator    *)
(* is not flushed, and what was yielded is what a failure-free run        *)
(* yields over the frames before the failing one.                         *)
C10_FailedState ==
    pc = "failed" => out = FoldRun(num_padding_frames, i).out

C10_ClassifierFailureFatal ==
    /\ []C10_FailedState
    /\ [][(pc' = "failed" \/ pc = "failed") =>
            (pc' = "failed" /\ i' = i /\ out' = out
               /\ voiced_frames' = voiced_frames)]_vars

C10_Witness ==
    /\ pc = "failed"
    /\ triggered
    /\ voiced_frames # <<>>
    /\ out # <<>>

----------------------------------------------------------------------------
(* Definitions shared by the properties of the ring buffer and the two    *)
(* transitions.                                                           *)

Max(a, b) == IF a >= b THEN a ELSE b

\* the entries of the input frames a..b
Pairs(a, b) ==
    [k \in 1..(b - a + 1) |-> <<audio[a + k - 1], IsSpeech(audio[a + k - 1].bytes)>>]

\* frames consumed when the ring buffer was last cleared (0 when it never was)
LastClear == IF triggered THEN i - Len(PostTrigger) ELSE LastRelease

\* the entry of the frame the loop takes next
CurrentEntry == <<audio[i + 1], IsSpeech(audio[i + 1].bytes)>>

\* the ring buffer once the next frame is appended, before any clear
RingAfterAppend ==
    IF num_padding_frames = 0 THEN <<>>
    ELSE IF Len(ring_buffer) < num_padding_frames THEN Append(ring_buffer, CurrentEntry)
    ELSE Append(Tail(ring_buffer), CurrentEntry)

SpeechEntries(rb) == Cardinality({k \in DOMAIN rb : rb[k][2]})

NonSpeechEntries(rb) == Cardinality({k \in DOMAIN rb : ~rb[k][2]})

\* a frame is being processed by this step
FrameStep == pc = "loop" /\ pc' = "loop" /\ i' = i + 1

----------------------------------------------------------------------------
(* C11: ring buffer bound and FIFO.  The ring buffer never holds more     *)
(* than capacity entries and always equals the most recent (up to         *)
(* capacity) frames appended since the last clear, in arrival order; an   *)
(* append to a full buffer drops exactly the oldest entry; the buffer is  *)
(* emptied only by the trigger and by the release.                        *)
C11_RingContents ==
    pc \in {"loop", "done", "failed"} =>
        /\ Len(ring_buffer) <= num_padding_frames
        /\ ring_buffer = Pairs(Max(LastClear, i - num_padding_frames) + 1, i)

C11_RingStep ==
    /\ (FrameStep /\ triggered' = triggered /\ num_padding_frames >= 1
          /\ Len(ring_buffer) = num_padding_frames)
       => ring_buffer' = Append(Tail(ring_buffer), CurrentEntry)
    /\ (pc = "loop" /\ ring_buffer # <<>> /\ ring_buffer' = <<>>)
       => (FrameStep /\ triggered' # triggered)

C11_RingBufferFifo ==
    /\ []C11_RingContents
    /\ [][C11_RingStep]_vars

C11_Witness ==
    /\ pc = "loop"
    /\ ~triggered
    /\ out # <<>>
    /\ num_padding_frames >= 2
    /\ Len(ring_buffer) = num_padding_frames
    /\ ring_buffer[1][1].timestamp > LastRelease

(* C12: trigger and accumulator.  A run starts not triggered with an      *)
(* empty accumulator; between two frames the accumulator is non-empty     *)
(* exactly when the machine is triggered; right after a release yields,   *)
(* the accumulator is empty and the machine is not triggered.             *)
C12_AccumIffTriggered ==
    pc = "loop" =>
        /\ (voiced_frames # <<>>) <=> triggered
        /\ i = 0 => (~triggered /\ voiced_frames = <<>>)

C12_TriggerAccumulator ==
    /\ []C12_AccumIffTriggered
    /\ [][(FrameStep /\ out' # out) =>
            (voiced_frames' = <<>> /\ ~triggered')]_vars

C12_Witness ==
    /\ pc = "loop"
    /\ ~triggered
    /\ voiced_frames = <<>>
    /\ Len(out) = 1
    /\ ring_buffer # <<>>

(* C13: trigger condition.  While not triggered, the trigger fires on a   *)
(* frame iff, once the frame is appended, the ring buffer is full and     *)
(* holds strictly more than 0.9 x capacity speech frames.                 *)
C13_TriggerCondition ==
    [][(FrameStep /\ ~triggered) =>
         (triggered' <=>
            (/\ Len(RingAfterAppend) = num_padding_frames
             /\ 10 * SpeechEntries(RingAfterAppend) > 9 * num_padding_frames))]_vars

C13_Witness ==
    /\ pc = "loop"
    /\ ~triggered
    /\ num_padding_frames = 10
    /\ Len(ring_buffer) = 10
    /\ SpeechEntries(ring_buffer) = 9

(* C14: trigger effect.  On the step that triggers, the accumulator       *)
(* becomes the whole ring buffer, that is the capacity most recent        *)
(* frames, oldest first, the current frame once; the ring buffer becomes  *)
(* empty and nothing is yielded.                                          *)
C14_TriggerEffect ==
    [][(FrameStep /\ ~triggered /\ triggered') =>
         /\ voiced_frames' = RingAfterAppend
         /\ voiced_frames' = Pairs(i' - num_padding_frames + 1, i')
         /\ Occurrences(Frames(voiced_frames'), audio[i']) = 1
         /\ ring_buffer' = <<>>
         /\ out' = out]_vars

C14_Witness ==
    /\ pc = "loop"
    /\ triggered
    /\ num_padding_frames = 11
    /\ ring_buffer = <<>>
    /\ Len(voiced_frames) = 11
    /\ ~voiced_frames[11][2]

(* C15: release condition.  While triggered, every frame is appended to   *)
(* the accumulator and to the ring buffer, and the release fires on that  *)
(* frame iff the ring buffer then holds strictly more than 0.9 x          *)
(* capacity non-speech frames, full or not.                               *)
C15_ReleaseCondition ==
    [][(FrameStep /\ triggered) =>
         /\ ~triggered' <=>
              10 * NonSpeechEntries(RingAfterAppend) > 9 * num_padding_frames
         /\ triggered' =>
              /\ voiced_frames' = Append(voiced_frames, CurrentEntry)
              /\ ring_buffer' = RingAfterAppend
         /\ ~triggered' =>
              /\ out' # <<>>
              /\ out'[Len(out')].frames = Frames(Append(voiced_frames, CurrentEntry))]_vars

C15_Witness ==
    /\ pc = "loop"
    /\ triggered
    /\ num_padding_frames = 10
    /\ Len(ring_buffer) = 9
    /\ NonSpeechEntries(ring_buffer) = 9

(* C16: release effect.  The step that releases yields exactly one        *)
(* segment, the frames accumulated since the trigger through the current  *)
(* frame, joined in arrival order; afterwards the accumulator and the     *)
(* ring buffer are empty and the machine is not triggered, so every       *)
(* segment starts after the frame that released the one before.           *)
C16_ReleaseStep ==
    (FrameStep /\ triggered /\ ~triggered') =>
        /\ Len(out') = Len(out) + 1
        /\ SubSeq(out', 1, Len(out)) = out
        /\ out'[Len(out')].frames = Frames(voiced_frames) \o <<audio[i']>>
        /\ out'[Len(out')].frames
             = SubSeq(audio, voiced_frames[1][1].timestamp + 1, i')
        /\ out'[Len(out')].bytes
             = [k \in 1..(i' - voiced_frames[1][1].timestamp) |->
                  audio[voiced_frames[1][1].timestamp + k].bytes[1]]
        /\ voiced_frames' = <<>>
        /\ ring_buffer' = <<>>

C16_StartsAfterRelease ==
    \A n \in 2..Len(out) : out[n].frames[1].timestamp + 1 > out[n - 1].at

C16_ReleaseEffect ==
    /\ []C16_StartsAfterRelease
    /\ [][C16_ReleaseStep]_vars

C16_Witness ==
    /\ pc = "loop"
    /\ ~triggered
    /\ Len(out) = 2
    /\ i = LastRelease
    /\ ring_buffer = <<>>
    /\ voiced_frames = <<>>

(* C17: single pass and termination.  With a consumer that keeps         *)
(* pulling, every run ends; frames are classified and folded once each,   *)
(* in arrival order; a released segment is yielded on the step of its     *)
(* releasing frame, before the next frame is classified; and the flush,   *)
(* if any, is the last thing a run does.                                  *)
VerdictMarks(n) ==
    [k \in 1..n |-> <<IF IsSpeech(audio[k].bytes) THEN "1" ELSE "0">>]

ClassMarks == SelectSeq(stdout, LAMBDA m : m[1] \in {"0", "1"})

C17_ClassifiedOnce ==
    pc \in {"loop", "done", "failed"} =>
        /\ i \in 0..Len(audio)
        /\ ClassMarks
             = (IF run = 2 THEN VerdictMarks(Len(audio)) ELSE <<>>) \o VerdictMarks(i)
        /\ \A n \in 1..Len(out) : out[n].at <= i
        /\ \A n \in 1..Len(out) :
             out[n].kind = "flush" => (pc = "done" /\ n = Len(out))

C17_Step ==
    /\ (pc = "loop" /\ pc' = "loop") =>
          /\ i' = i + 1
          /\ Len(stdout') > Len(stdout)
          /\ SubSeq(stdout', 1, Len(stdout) + 1)
               = Append(stdout, <<IF IsSpeech(audio[i + 1].bytes) THEN "1" ELSE "0">>)
          /\ out' # out =>
               (out'[Len(out')].at = i' /\ out'[Len(out')].kind = "release")
    /\ (pc = "loop" /\ pc' = "done") => (i = Len(audio) /\ i' = i)
    /\ pc = "done" => (out' = out /\ stdout' = stdout /\ i' = i)

C17_SinglePassTermination ==
    /\ (pc = "start") ~> (pc \in {"done", "failed", "error"})
    /\ []C17_ClassifiedOnce
    /\ [][C17_Step]_vars

C17_Witness ==
    /\ pc = "done"
    /\ run = 2
    /\ Len(out) = 2
    /\ out[1].kind = "release"
    /\ out[2].kind = "flush"

(* C18: implicit minimum segment length.  Every yielded segment holds at *)
(* least capacity frames, and every segment yielded by a release holds    *)
(* at least capacity + floor(0.9 x capacity) + 1 frames.                  *)
C18_MinimumSegmentLength ==
    \A n \in 1..Len(out) :
        /\ Len(out[n].frames) >= num_padding_frames
        /\ Len(out[n].bytes) >= num_padding_frames
        /\ out[n].kind = "release" =>
             Len(out[n].frames)
               >= num_padding_frames + ((9 * num_padding_frames) \div 10) + 1

C18_Witness ==
    /\ pc = "done"
    /\ num_padding_frames = 11
    /\ Len(out) = 2
    /\ out[1].kind = "release"
    /\ Len(out[1].frames) = 21
    /\ out[2].kind = "flush"
    /\ Len(out[2].frames) = 11

(* C19: a release fires only on a non-speech frame.  Processing a speech  *)
(* frame while triggered yields nothing and leaves the machine triggered, *)
(* and every segment yielded by a release ends with a non-speech frame.   *)
C19_ReleaseEndsNonSpeech ==
    \A n \in 1..Len(out) :
        out[n].kind = "release" =>
            /\ ~IsSpeech(out[n].frames[Len(out[n].frames)].bytes)
            /\ out[n].bytes[Len(out[n].bytes)] = 0

C19_ReleaseOnlyOnNonSpeech ==
    /\ []C19_ReleaseEndsNonSpeech
    /\ [][(FrameStep /\ triggered /\ IsSpeech(audio[i + 1].bytes)) =>
            (triggered' /\ out' = out)]_vars

C19_Witness ==
    /\ pc = "loop"
    /\ triggered
    /\ num_padding_frames = 11
    /\ Len(ring_buffer) = 11
    /\ NonSpeechEntries(ring_buffer) = 9
    /\ ring_buffer[11][2]

(* C20: while triggered the ring buffer is a suffix of the accumulator,   *)
(* so the clear on release drops no frame that was not yielded.           *)
C20_RingIsSuffix ==
    triggered =>
        /\ Len(ring_buffer) <= Len(voiced_frames)
        /\ ring_buffer
             = SubSeq(voiced_frames,
                      Len(voiced_frames) - Len(ring_buffer) + 1, Len(voiced_frames))

C20_RingSuffixOfAccumulator ==
    /\ []C20_RingIsSuffix
    /\ [][(FrameStep /\ triggered /\ ~triggered') =>
            \A k \in 1..Len(RingAfterAppend) :
                Occurrences(out'[Len(out')].frames, RingAfterAppend[k][1]) = 1]_vars

C20_Witness ==
    /\ pc = "loop"
    /\ triggered
    /\ num_padding_frames >= 2
    /\ Len(ring_buffer) = num_padding_frames
    /\ Len(voiced_frames) > 2 * num_padding_frames
    /\ NonSpeechEntries(ring_buffer) >= 1

====
